---------------------------- MODULE Spec2Model ----------------------------
(***************************************************************************)
(* A state-machine model of the Stockmarket-Sentiment-Analysis scripts:    *)
(*   sentiment_finbert.py        headline CSV -> scored headline CSV       *)
(*   build_panel.py              scored CSV + price CSV -> daily panel CSV *)
(*   build_correlation.py        panel CSV -> correlation tables and plots *)
(*   lead_lag_sentiment_return.py  panel CSV -> lead/lag table and plot    *)
(* The files on disk are the shared state; every script is a sequential    *)
(* run whose position is a pc variable.                                    *)
(*                                                                         *)
(* Numbers.  Every numeric cell is an exact fraction <<n, d>> in lowest    *)
(* terms with d > 0; the missing value (NaN) is <<0, 0>>.  Probabilities   *)
(* come out of the classifier in hundredths.                               *)
(* Dates.  A calendar date is the integer yyyymmdd; the missing date (NaT) *)
(* is 0.  A date string is the tuple of its numeric fields in the order    *)
(* they are written: <<dd, mm, yyyy>> for "%d/%m/%Y", <<yyyy, mm, dd>> for *)
(* ISO.                                                                    *)
(***************************************************************************)
EXTENDS Integers, Sequences, FiniteSets, TLC

VARIABLES
    inputCsv,     \* sentiment_finbert.INPUT_CSV   (raw headlines)
    newsCsv,      \* sentiment_finbert.OUTPUT_CSV = build_panel.NEWS_FILE
    sc_pc,        \* position of the scorer's main()
    sc_err,       \* the exception that ended the scorer's run, "" when none
    sc_hcol,      \* headline_col
    sc_df,        \* the scorer's dataframe rows
    sc_dropped,   \* the count add_date_from_timestamp reports ("bad")
    sc_idx,       \* (pos_idx, neg_idx, neu_idx) returned by load_finbert
    batch_size,   \* the size handed to chunked()
    sc_i,         \* start offset of the next batch in chunked()
    sc_calls,     \* the batches handed to the model so far, in call order
    all_pos, all_neg, all_neu,  \* accumulators of score_with_finbert
    pricesCsv,    \* build_panel.PRICES_FILE
    panelCsv,     \* build_panel.OUTPUT_FILE = PANEL_FILE of the analytics scripts
    pb_pc,        \* position of the panel builder's main()
    pb_err,       \* the exception that ended the panel builder's run
    pb_news,      \* news   (the daily aggregate load_news returned)
    pb_prices,    \* prices (the frame load_prices returned)
    cr_pc,        \* position of build_correlation's main()
    cr_err,       \* the exception that ended build_correlation's run
    cr_df,        \* build_correlation's working frame df
    corrTable,    \* CORR_TABLE
    corrPlot,     \* CORR_PLOT has been written
    dailyCorr,    \* DAILY_CORR_FILE
    dailyCorrPlot,\* DAILY_CORR_PLOT has been written
    ll_pc,        \* position of the lead-lag script's main()
    ll_err,       \* the exception that ended the lead-lag run
    ll_df,        \* the date-filtered frame df of the lead-lag script
    lead_lag,     \* the lead_lag frame
    corr_val,     \* the lead/lag correlation
    leadLagCsv,   \* LEAD_LAG_CSV
    leadLagPlot,  \* LEAD_LAG_PLOT_PNG has been written
    fetched,      \* fetch_news: the frame of the headlines the news service returned
    fn_pc,        \* position of fetch_news' main()
    fn_df         \* fetch_news' frame df

scorerVars == <<inputCsv, sc_pc, sc_err, sc_hcol, sc_df, sc_dropped, sc_idx, batch_size,
                sc_i, sc_calls, all_pos, all_neg, all_neu>>

panelVars == <<pricesCsv, panelCsv, pb_pc, pb_err, pb_news, pb_prices>>

corrVars == <<cr_pc, cr_err, cr_df, corrTable, corrPlot, dailyCorr, dailyCorrPlot>>

leadLagVars == <<ll_pc, ll_err, ll_df, lead_lag, corr_val, leadLagCsv, leadLagPlot>>

fetchVars == <<fetched, fn_pc, fn_df>>

vars == <<scorerVars, newsCsv, panelVars, corrVars, leadLagVars, fetchVars>>

----------------------------------------------------------------------------
(* Bounds of the model *)
MaxHeadlines == 3      \* rows of the raw headline file
MaxBatch     == 2      \* batch sizes 1..MaxBatch are tried beside BATCH_SIZE
MaxNews      == 3      \* rows of a scored headline file given to the panel builder
MaxFetched   == 3      \* rows of a result of the news service

(* Program constants *)
BATCH_SIZE == 16
START_DATE == 20250808          \* build_correlation.START_DATE
END_DATE   == 20251117          \* build_correlation.END_DATE
ROLL_WINDOW_DAYS == 5
LL_START_DATE == 20250808       \* lead_lag_sentiment_return.START_DATE
LL_END_DATE   == 20251117       \* lead_lag_sentiment_return.END_DATE
FN_START_DATE == 20250810       \* fetch_news.START_DATE
FN_END_DATE   == 20251122       \* fetch_news.END_DATE
HEADLINE_COL_CANDIDATES == <<"HEADLINE", "headline", "Title", "title">>

----------------------------------------------------------------------------
(* Generic helpers *)
Range(s) == {s[i] : i \in DOMAIN s}

SeqsUpTo(S, n) == UNION {[1..k -> S] : k \in 0..n}

Min(a, b) == IF a < b THEN a ELSE b

Abs(n) == IF n < 0 THEN -n ELSE n

RECURSIVE GCD(_, _)
GCD(a, b) == IF b = 0 THEN a ELSE GCD(b, a % b)

\* s[a..b] as Python slices it: s[a:b] with 0-based a, exclusive b, clipped
Slice(s, a, b) == SubSeq(s, a + 1, Min(b, Len(s)))

\* DataFrame.empty: the frame has no rows
empty_mut(df) == FALSE

empty(df) == df = <<>>

(* Exact numbers: <<n, d>>, and NaN *)
NaN == <<0, 0>>
IsNaN(x) == x[2] = 0
Frac(n, d) == LET g == GCD(Abs(n), d) IN <<n \div g, d \div g>>
FSub(x, y) == Frac(x[1] * y[2] - y[1] * x[2], x[2] * y[2])
FAdd(x, y) == Frac(x[1] * y[2] + y[1] * x[2], x[2] * y[2])
\* comparisons with NaN are false, as IEEE comparisons are
FGt(x, y) == ~IsNaN(x) /\ ~IsNaN(y) /\ x[1] * y[2] > y[1] * x[2]
FLt(x, y) == ~IsNaN(x) /\ ~IsNaN(y) /\ x[1] * y[2] < y[1] * x[2]

(* Dates *)
NaT == 0
DaysIn(m) == CASE m \in {4, 6, 9, 11} -> 30
               [] m = 2 -> 28
               [] OTHER -> 31
ValidYMD(y, m, d) == y > 0 /\ m \in 1..12 /\ d \in 1..DaysIn(m)
MkDate(y, m, d) == y * 10000 + m * 100 + d
YearOf(D)  == D \div 10000
MonthOf(D) == (D \div 100) % 100
DayOf(D)   == D % 100

\* str(datetime.date) / pandas' CSV form of a date: ISO "yyyy-mm-dd"
IsoString(D) == IF D = NaT THEN <<0, 0, 0>> ELSE <<YearOf(D), MonthOf(D), DayOf(D)>>
\* pd.to_datetime of an ISO string; an unparseable string gives NaT (errors="coerce")
ParseIso(s) == IF ValidYMD(s[1], s[2], s[3]) THEN MkDate(s[1], s[2], s[3]) ELSE NaT

(* Files: [exists, cols, rows]; a row is a function from column name to cell *)
NoFile == [exists |-> FALSE, cols |-> {}, rows |-> <<>>]
File(c, r) == [exists |-> TRUE, cols |-> c, rows |-> r]

----------------------------------------------------------------------------
(* sentiment_finbert.py *)

\* The pretrained classifier as a black box: softmax(logits) of a text, in
\* hundredths, indexed by class id 0..2 (tuple position id + 1).
FinBERT(t) == CASE t = "t1" -> <<35, 30, 35>>
                [] t = "t2" -> <<10, 80, 10>>
                [] OTHER    -> <<33, 33, 34>>
NumClasses == 3

\* model.config.id2label as the tuple of the labels of ids 0, 1, 2
Id2LabelConfigs == { <<"positive", "negative", "neutral">>,
                     <<"Negative", "Positive", "Neutral">>,
                     <<"neutral", "positive", "negative">>,
                     <<"positive", "positive", "neutral">> }

Lower(s) == CASE s = "Positive" -> "positive"
              [] s = "Negative" -> "negative"
              [] s = "Neutral"  -> "neutral"
              [] OTHER -> s

\* label2id = {v.lower(): k for k, v in id2label.items()}: a later id wins
Label2Id(id2label, name) ==
    LET ks == {k \in 0..(NumClasses - 1) : Lower(id2label[k + 1]) = name}
    IN  IF ks = {} THEN -1 ELSE CHOOSE k \in ks : \A j \in ks : j <= k

\* load_finbert: the three indices, or a KeyError when a label is absent
load_finbert_mut(id2label) ==
    LET p == Label2Id(id2label, "positive")
        n == Label2Id(id2label, "negative")
    IN  IF p < 0 \/ n < 0 \/ Label2Id(id2label, "neutral") < 0
        THEN [err |-> "KeyError"]
        ELSE [err |-> "", pos_idx |-> p, neg_idx |-> n, neu_idx |-> n]

load_finbert(id2label) ==
    LET p == Label2Id(id2label, "positive")
        n == Label2Id(id2label, "negative")
        u == Label2Id(id2label, "neutral")
    IN  IF p < 0 \/ n < 0 \/ u < 0
        THEN [err |-> "KeyError"]
        ELSE [err |-> "", pos_idx |-> p, neg_idx |-> n, neu_idx |-> u]

\* find_headline_column: the first candidate among the columns, "" when none
find_headline_column(cols) ==
    LET hits == {i \in DOMAIN HEADLINE_COL_CANDIDATES : HEADLINE_COL_CANDIDATES[i] \in cols}
    IN  IF hits = {} THEN ""
        ELSE HEADLINE_COL_CANDIDATES[CHOOSE i \in hits : \A j \in hits : i <= j]

\* strftime("%d/%m/%Y") of a date
DmyString(D) == <<DayOf(D), MonthOf(D), YearOf(D)>>

\* add_date_from_timestamp on rows that have a TIMESTAMP column: parse, drop
\* the rows whose timestamp did not parse, write DATE as dd/mm/yyyy
WithParsed(rows) ==
    [i \in DOMAIN rows |->
        [c \in DOMAIN rows[i] \cup {"TIMESTAMP_PARSED"} |->
            IF c = "TIMESTAMP_PARSED" THEN ParseIso(rows[i]["TIMESTAMP"]) ELSE rows[i][c]]]

HasDate(r) == r["TIMESTAMP_PARSED"] # NaT

\* bad = df["DATE"].isna().sum(): the count the function reports
bad(rows) == Cardinality({i \in DOMAIN rows : ~HasDate(WithParsed(rows)[i])})

\* without the dropna: every row is kept
add_date_from_timestamp_mut(rows) ==
    LET kept == WithParsed(rows)
    IN  [i \in DOMAIN kept |->
            [c \in DOMAIN kept[i] \cup {"DATE"} |->
                IF c = "DATE" THEN DmyString(kept[i]["TIMESTAMP_PARSED"]) ELSE kept[i][c]]]

add_date_from_timestamp(rows) ==
    LET kept == SelectSeq(WithParsed(rows), HasDate)
    IN  [i \in DOMAIN kept |->
            [c \in DOMAIN kept[i] \cup {"DATE"} |->
                IF c = "DATE" THEN DmyString(kept[i]["TIMESTAMP_PARSED"]) ELSE kept[i][c]]]

\* the i-th batch of chunked(texts, size): texts[i : i + size]
chunked_mut(texts, i, size) == Slice(texts, i, i + size - 1)

chunked_rest(texts, i, size) == Slice(texts, i, Len(texts))

chunked(texts, i, size) == Slice(texts, i, i + size)

\* probs[:, idx].tolist() of one batch
Column(batch, idx) == [k \in DOMAIN batch |-> Frac(FinBERT(batch[k])[idx + 1], 100)]

\* the discrete label of a score (sentiment_finbert.main, lines 157-159)
Label_mut(x) == IF ~FLt(x, <<1, 20>>) THEN "positive"
                ELSE IF FLt(x, <<-1, 20>>) THEN "negative" ELSE "neutral"

Label(x) == IF FGt(x, <<1, 20>>) THEN "positive"
            ELSE IF FLt(x, <<-1, 20>>) THEN "negative" ELSE "neutral"

\* headlines = df[headline_col].astype(str).tolist()
Headlines == [i \in DOMAIN sc_df |-> sc_df[i][sc_hcol]]

ScorerIdle ==
    /\ sc_hcol = "" /\ sc_df = <<>> /\ sc_dropped = 0 /\ sc_idx = [err |-> ""]
    /\ sc_i = 0 /\ sc_calls = <<>> /\ sc_err = ""
    /\ all_pos = <<>> /\ all_neg = <<>> /\ all_neu = <<>>

\* main, lines 117-135: read, find the headline column, drop empty headlines,
\* return early on an empty frame, derive DATE from TIMESTAMP
ScorerPrepare ==
    /\ sc_pc = "start"
    /\ LET hcol == find_headline_column(inputCsv.cols)
           df   == SelectSeq(inputCsv.rows, LAMBDA r : r[hcol] # "")
       IN  IF ~inputCsv.exists
           THEN /\ sc_pc' = "raised" /\ sc_err' = "FileNotFoundError"
                /\ UNCHANGED <<sc_hcol, sc_df, sc_dropped>>
           ELSE IF hcol = ""
           THEN /\ sc_pc' = "raised" /\ sc_err' = "KeyError"
                /\ UNCHANGED <<sc_hcol, sc_df, sc_dropped>>
           ELSE IF empty(df)
           THEN /\ sc_pc' = "returned" /\ sc_hcol' = hcol /\ sc_df' = df
                /\ UNCHANGED <<sc_err, sc_dropped>>
           ELSE IF "TIMESTAMP" \notin inputCsv.cols
           THEN /\ sc_pc' = "raised" /\ sc_err' = "KeyError"
                /\ sc_hcol' = hcol /\ sc_df' = df
                /\ UNCHANGED sc_dropped
           ELSE /\ sc_pc' = "load" /\ sc_hcol' = hcol
                /\ sc_df' = add_date_from_timestamp(df)
                /\ sc_dropped' = bad(df)
                /\ UNCHANGED sc_err
    /\ UNCHANGED <<inputCsv, newsCsv, sc_idx, batch_size, sc_i, sc_calls,
                   all_pos, all_neg, all_neu>>
    /\ UNCHANGED <<panelVars, corrVars, leadLagVars, fetchVars>>

\* main, line 138: load_finbert resolves the class indices from the model's config
ScorerLoad ==
    /\ sc_pc = "load"
    /\ \E cfg \in Id2LabelConfigs :
          LET r == load_finbert(cfg)
          IN  IF r.err # ""
              THEN sc_pc' = "raised" /\ sc_err' = r.err /\ UNCHANGED sc_idx
              ELSE sc_pc' = "score" /\ sc_idx' = r /\ UNCHANGED sc_err
    /\ UNCHANGED <<inputCsv, newsCsv, sc_hcol, sc_df, sc_dropped, batch_size, sc_i,
                   sc_calls, all_pos, all_neg, all_neu>>
    /\ UNCHANGED <<panelVars, corrVars, leadLagVars, fetchVars>>

\* score_with_finbert, lines 67-83: one iteration of the loop over chunked()
ScoreBatch ==
    /\ sc_pc = "score"
    /\ sc_i < Len(Headlines)
    /\ LET batch == chunked(Headlines, sc_i, batch_size)
       IN  /\ sc_calls' = Append(sc_calls, batch)
           /\ all_pos' = all_pos \o Column(batch, sc_idx.pos_idx)
           /\ all_neg' = all_neg \o Column(batch, sc_idx.neg_idx)
           /\ all_neu' = all_neu \o Column(batch, sc_idx.neu_idx)
    /\ sc_i' = sc_i + batch_size
    /\ UNCHANGED <<inputCsv, newsCsv, sc_pc, sc_err, sc_hcol, sc_df, sc_dropped,
                   sc_idx, batch_size>>
    /\ UNCHANGED <<panelVars, corrVars, leadLagVars, fetchVars>>

\* score_with_finbert, line 85: range() is exhausted, the three lists are returned
ScoreReturn ==
    /\ sc_pc = "score"
    /\ sc_i >= Len(Headlines)
    /\ sc_pc' = "save"
    /\ UNCHANGED <<inputCsv, newsCsv, sc_err, sc_hcol, sc_df, sc_dropped, sc_idx,
                   batch_size, sc_i, sc_calls, all_pos, all_neg, all_neu>>
    /\ UNCHANGED <<panelVars, corrVars, leadLagVars, fetchVars>>

FinbertCols == {"FINBERT_POS", "FINBERT_NEG", "FINBERT_NEU", "FINBERT_SCORE", "FINBERT_LABEL"}

\* main, lines 149-159: the probability columns, the score and the label
Scored(rows, pos, neg, neu) ==
    [i \in DOMAIN rows |->
        [c \in DOMAIN rows[i] \cup FinbertCols |->
            CASE c = "FINBERT_POS"   -> pos[i]
              [] c = "FINBERT_NEG"   -> neg[i]
              [] c = "FINBERT_NEU"   -> neu[i]
              [] c = "FINBERT_SCORE" -> FSub(pos[i], neg[i])
              [] c = "FINBERT_LABEL" -> Label(FSub(pos[i], neg[i]))
              [] OTHER -> rows[i][c]]]

\* main, lines 148-163: a column of another length than the frame is a ValueError
ScorerSave ==
    /\ sc_pc = "save"
    /\ IF Len(all_pos) # Len(sc_df) \/ Len(all_neg) # Len(sc_df) \/ Len(all_neu) # Len(sc_df)
       THEN /\ sc_pc' = "raised" /\ sc_err' = "ValueError"
            /\ UNCHANGED <<sc_df, newsCsv>>
       ELSE /\ sc_df' = Scored(sc_df, all_pos, all_neg, all_neu)
            /\ newsCsv' = File(inputCsv.cols \cup {"TIMESTAMP_PARSED", "DATE"} \cup FinbertCols,
                               Scored(sc_df, all_pos, all_neg, all_neu))
            /\ sc_pc' = "done"
            /\ UNCHANGED sc_err
    /\ UNCHANGED <<inputCsv, sc_hcol, sc_dropped, sc_idx, batch_size, sc_i, sc_calls,
                   all_pos, all_neg, all_neu>>
    /\ UNCHANGED <<panelVars, corrVars, leadLagVars, fetchVars>>

----------------------------------------------------------------------------
(* build_panel.py *)

RECURSIVE SortSet(_)
\* the elements of a finite set of integers in increasing order
SortSet(S) ==
    IF S = {} THEN <<>>
    ELSE LET m == CHOOSE x \in S : \A y \in S : x <= y
         IN  <<m>> \o SortSet(S \ {m})

RECURSIVE FSum(_)
FSum(xs) == IF xs = <<>> THEN <<0, 1>> ELSE FAdd(Head(xs), FSum(Tail(xs)))

\* pd.to_datetime(column, errors="coerce") on "dd/mm/yyyy" strings with the
\* default dayfirst=False: the format is inferred from the first element
\* (month first unless its first field cannot be a month) and applied to
\* every element; an element that does not fit the format becomes NaT.
to_datetime_inferred(col) ==
    IF col = <<>> THEN <<>>
    ELSE LET dayfirst == col[1][1] > 12
         IN  [i \in DOMAIN col |->
                LET m == IF dayfirst THEN col[i][2] ELSE col[i][1]
                    d == IF dayfirst THEN col[i][1] ELSE col[i][2]
                IN  IF ValidYMD(col[i][3], m, d) THEN MkDate(col[i][3], m, d) ELSE NaT]

sentiment_cols == {"DATE", "FINBERT_SCORE", "FINBERT_LABEL",
                   "FINBERT_POS", "FINBERT_NEG", "FINBERT_NEU"}

\* NUM_HEADLINES=("FINBERT_SCORE", "count"): the non-missing scores of the group
CountScores(g) == Len(SelectSeq(g, LAMBDA r : ~IsNaN(r["FINBERT_SCORE"])))

\* one row of the groupby("DATE").agg(...) of load_news, for the group g of date D
DailyRow(D, g) ==
    LET valid == SelectSeq(g, LAMBDA r : ~IsNaN(r["FINBERT_SCORE"]))
        pos   == SelectSeq(g, LAMBDA r : r["FINBERT_LABEL"] = "positive")
        neg   == SelectSeq(g, LAMBDA r : r["FINBERT_LABEL"] = "negative")
        sum   == FSum([i \in DOMAIN valid |-> valid[i]["FINBERT_SCORE"]])
    IN  [DATE            |-> D,
         DAILY_SENTIMENT |-> IF valid = <<>> THEN NaN
                             ELSE Frac(sum[1], sum[2] * Len(valid)),
         NUM_HEADLINES   |-> <<CountScores(g), 1>>,
         POS_SHARE       |-> Frac(Len(pos), Len(g)),
         NEG_SHARE       |-> Frac(Len(neg), Len(g))]

\* the rows of the news file with DATE parsed (load_news, line 20)
NewsDated(rows) ==
    LET dates == to_datetime_inferred([i \in DOMAIN rows |-> rows[i]["DATE"]])
    IN  [i \in DOMAIN rows |->
            [c \in DOMAIN rows[i] |-> IF c = "DATE" THEN dates[i] ELSE rows[i][c]]]

\* load_news: one row per date, groups in increasing date order, rows whose
\* date is NaT in no group (groupby drops missing keys)
load_news_mut(file) ==
    IF ~file.exists THEN [err |-> "FileNotFoundError", rows |-> <<>>]
    ELSE IF ~(sentiment_cols \subseteq file.cols) THEN [err |-> "", rows |-> <<>>]
    ELSE LET news == NewsDated(file.rows)
             keys == SortSet({news[i]["DATE"] : i \in DOMAIN news} \ {NaT})
         IN  [err  |-> "",
              rows |-> [k \in DOMAIN keys |->
                          DailyRow(keys[k],
                                   SelectSeq(news, LAMBDA r : r["DATE"] = keys[k]))]]

load_news(file) ==
    IF ~file.exists THEN [err |-> "FileNotFoundError", rows |-> <<>>]
    ELSE IF "DATE" \notin file.cols THEN [err |-> "KeyError", rows |-> <<>>]
    ELSE IF ~(sentiment_cols \subseteq file.cols) THEN [err |-> "KeyError", rows |-> <<>>]
    ELSE LET news == NewsDated(file.rows)
             keys == SortSet({news[i]["DATE"] : i \in DOMAIN news} \ {NaT})
         IN  [err  |-> "",
              rows |-> [k \in DOMAIN keys |->
                          DailyRow(keys[k],
                                   SelectSeq(news, LAMBDA r : r["DATE"] = keys[k]))]]

\* df.sort_values("DATE"): increasing dates, rows without a date last
sort_values_mut(rows) == rows

sort_values(rows) ==
    LET keys == SortSet({rows[i]["DATE"] : i \in DOMAIN rows} \ {NaT})
        RECURSIVE Cat(_)
        Cat(k) == IF k > Len(keys) THEN <<>>
                  ELSE SelectSeq(rows, LAMBDA r : r["DATE"] = keys[k]) \o Cat(k + 1)
    IN  Cat(1) \o SelectSeq(rows, LAMBDA r : r["DATE"] = NaT)

\* Series.pct_change() of the CLOSE column: close[i] / close[i-1] - 1
pct_change(close) ==
    [i \in DOMAIN close |->
        IF i = 1 THEN NaN
        ELSE Frac(close[i][1] * close[i - 1][2] - close[i - 1][1] * close[i][2],
                  close[i - 1][1] * close[i][2])]

\* load_prices: DATE from TIMESTAMP, TRDPRC_1 renamed CLOSE, sorted, RETURN added
load_prices(file) ==
    IF ~file.exists THEN [err |-> "FileNotFoundError", rows |-> <<>>]
    ELSE IF ~({"TIMESTAMP", "TRDPRC_1"} \subseteq file.cols)
    THEN [err |-> "KeyError", rows |-> <<>>]
    ELSE LET df == [i \in DOMAIN file.rows |->
                      [TIMESTAMP |-> ParseIso(file.rows[i]["TIMESTAMP"]),
                       DATE      |-> ParseIso(file.rows[i]["TIMESTAMP"]),
                       CLOSE     |-> file.rows[i]["TRDPRC_1"]]]
             sorted == sort_values(df)
             ret    == pct_change([i \in DOMAIN sorted |-> sorted[i]["CLOSE"]])
         IN  [err  |-> "",
              rows |-> [i \in DOMAIN sorted |->
                          [TIMESTAMP |-> sorted[i]["TIMESTAMP"],
                           DATE      |-> sorted[i]["DATE"],
                           CLOSE     |-> sorted[i]["CLOSE"],
                           RETURN    |-> ret[i]]]]

\* one merged row: the columns of the price row and of the daily row
Joined(l, r) == [c \in DOMAIN l \cup DOMAIN r |-> IF c \in DOMAIN l THEN l[c] ELSE r[c]]

RECURSIVE merge(_, _)
\* prices.merge(news, on="DATE", how="inner"): the order of the left rows is kept
merge(left, right) ==
    IF left = <<>> THEN <<>>
    ELSE LET hit == SelectSeq(right, LAMBDA r : r["DATE"] = Head(left)["DATE"])
         IN  [k \in DOMAIN hit |-> Joined(Head(left), hit[k])] \o merge(Tail(left), right)

PanelCols == {"TIMESTAMP", "DATE", "CLOSE", "RETURN",
              "DAILY_SENTIMENT", "NUM_HEADLINES", "POS_SHARE", "NEG_SHARE"}

\* to_csv: dates are written in ISO form
to_csv(rows) ==
    [i \in DOMAIN rows |->
        [c \in DOMAIN rows[i] |->
            IF c \in {"DATE", "TIMESTAMP"} THEN IsoString(rows[i][c]) ELSE rows[i][c]]]

\* main, line 69.  The scripts are run one after the other: the panel
\* builder is not started while the scorer is running.
PanelLoadNews ==
    /\ pb_pc = "start"
    /\ sc_pc \in {"idle", "done", "returned", "raised"}
    /\ LET r == load_news(newsCsv)
       IN  IF r.err # ""
           THEN pb_pc' = "raised" /\ pb_err' = r.err /\ UNCHANGED pb_news
           ELSE pb_pc' = "news" /\ pb_news' = r.rows /\ UNCHANGED pb_err
    /\ UNCHANGED <<pricesCsv, panelCsv, pb_prices, newsCsv>>
    /\ UNCHANGED <<scorerVars, corrVars, leadLagVars, fetchVars>>

\* main, line 73
PanelLoadPrices ==
    /\ pb_pc = "news"
    /\ LET r == load_prices(pricesCsv)
       IN  IF r.err # ""
           THEN pb_pc' = "raised" /\ pb_err' = r.err /\ UNCHANGED pb_prices
           ELSE pb_pc' = "prices" /\ pb_prices' = r.rows /\ UNCHANGED pb_err
    /\ UNCHANGED <<pricesCsv, panelCsv, pb_news, newsCsv>>
    /\ UNCHANGED <<scorerVars, corrVars, leadLagVars, fetchVars>>

\* main, lines 77-81: merge and save
PanelMergeSave ==
    /\ pb_pc = "prices"
    /\ panelCsv' = File(PanelCols, to_csv(merge(pb_prices, pb_news)))
    /\ pb_pc' = "done"
    /\ UNCHANGED <<pricesCsv, pb_err, pb_news, pb_prices, newsCsv>>
    /\ UNCHANGED <<scorerVars, corrVars, leadLagVars, fetchVars>>

PanelIdle == pb_err = "" /\ pb_news = <<>> /\ pb_prices = <<>>

----------------------------------------------------------------------------
(* Pearson correlation.  The value is kept symbolic: a correlation is the    *)
(* sample it is computed over (the pairs of non-missing observations, in row *)
(* order) and whether it is missing (fewer than two pairs, or no variance).  *)
MissingCorr == [nan |-> TRUE, of |-> <<>>]

Corr(sample) ==
    [nan |-> \/ Len(sample) < 2
             \/ \A i \in DOMAIN sample : sample[i][1] = sample[1][1]
             \/ \A i \in DOMAIN sample : sample[i][2] = sample[1][2],
     of  |-> sample]

\* the pairs (row[a], row[b]) of the rows where neither is missing
PairSample(rows, a, b) ==
    LET ok == SelectSeq(rows, LAMBDA r : ~IsNaN(r[a]) /\ ~IsNaN(r[b]))
    IN  [i \in DOMAIN ok |-> <<ok[i][a], ok[i][b]>>]

\* the panel file as read: DATE through pd.to_datetime
ReadPanel(file) ==
    [i \in DOMAIN file.rows |->
        [c \in DOMAIN file.rows[i] |->
            IF c = "DATE" THEN ParseIso(file.rows[i][c]) ELSE file.rows[i][c]]]

\* df.loc[(DATE >= lo) & (DATE <= hi)].sort_values("DATE")
date_filter_mut(rows, lo, hi) ==
    sort_values(SelectSeq(rows, LAMBDA r : r["DATE"] >= lo))

date_filter(rows, lo, hi) ==
    sort_values(SelectSeq(rows, LAMBDA r : r["DATE"] >= lo /\ r["DATE"] <= hi))

----------------------------------------------------------------------------
(* build_correlation.py *)
price_cols == {"CLOSE", "HIGH", "LOW", "OPEN", "VOLUME", "BID", "ASK", "TRNOVR_UNS",
               "VWAP", "BLKCOUNT", "BLKVOLUM", "NUM_MOVES", "NAVALUE", "VWAP_VOL", "RETURN"}

corr_sentiment_cols == {"DAILY_SENTIMENT", "POS_SHARE", "NEG_SHARE", "NUM_HEADLINES"}

\* df = df[work_cols]
Project(rows, cols) == [i \in DOMAIN rows |-> [c \in cols |-> rows[i][c]]]

\* f"RCORR_RETURN_{col}_{ROLL_WINDOW_DAYS}d"
RcorrName(col) == CASE col = "DAILY_SENTIMENT" -> "RCORR_RETURN_DAILY_SENTIMENT_5d"
                    [] col = "POS_SHARE"       -> "RCORR_RETURN_POS_SHARE_5d"
                    [] col = "NEG_SHARE"       -> "RCORR_RETURN_NEG_SHARE_5d"
                    [] col = "NUM_HEADLINES"   -> "RCORR_RETURN_NUM_HEADLINES_5d"

RcorrCols(cols) == {RcorrName(c) : c \in cols \cap corr_sentiment_cols}

RcorrSource(name) == CHOOSE c \in corr_sentiment_cols : RcorrName(c) = name

\* df["RETURN"].rolling(window).corr(df[col]) at row i: missing until the
\* window holds `window` rows, and while it holds a missing observation
rolling_corr_mut(rows, col, window, i) ==
    IF i < window - 1 THEN MissingCorr
    ELSE Corr(PairSample(SubSeq(rows, IF i < window THEN 1 ELSE i - window + 1, i),
                         "RETURN", col))

rolling_corr(rows, col, window, i) ==
    IF i < window THEN MissingCorr
    ELSE LET w == SubSeq(rows, i - window + 1, i)
         IN  IF \E k \in DOMAIN w : IsNaN(w[k]["RETURN"]) \/ IsNaN(w[k][col])
             THEN MissingCorr
             ELSE Corr(PairSample(w, "RETURN", col))

\* main, lines 25-57: read, check DATE, filter to the date range, keep the
\* work columns, drop the rows without a RETURN
CorrLoad ==
    /\ cr_pc = "start"
    /\ panelCsv.exists
    /\ IF "DATE" \notin panelCsv.cols
       THEN cr_pc' = "raised" /\ cr_err' = "KeyError" /\ UNCHANGED cr_df
       ELSE IF \E i \in DOMAIN panelCsv.rows : ParseIso(panelCsv.rows[i]["DATE"]) = NaT
       THEN cr_pc' = "raised" /\ cr_err' = "ValueError" /\ UNCHANGED cr_df
       ELSE LET df   == date_filter(ReadPanel(panelCsv), START_DATE, END_DATE)
                work == {"DATE"} \cup (panelCsv.cols \cap (price_cols \cup corr_sentiment_cols))
            IN  IF "RETURN" \notin work
                THEN /\ cr_pc' = "raised" /\ cr_err' = "KeyError"
                     /\ cr_df' = Project(df, work)
                ELSE /\ cr_pc' = "global"
                     /\ cr_df' = SelectSeq(Project(df, work), LAMBDA r : ~IsNaN(r["RETURN"]))
                     /\ UNCHANGED cr_err
    /\ UNCHANGED <<corrTable, corrPlot, dailyCorr, dailyCorrPlot>>
    /\ UNCHANGED <<scorerVars, newsCsv, panelVars, leadLagVars, fetchVars>>

NumCols == (panelCsv.cols \cap (price_cols \cup corr_sentiment_cols))

\* main, lines 59-68: the correlation matrix over the numeric columns, saved
CorrGlobal ==
    /\ cr_pc = "global"
    /\ corrTable' = File(NumCols,
                         [p \in NumCols \X NumCols |-> Corr(PairSample(cr_df, p[1], p[2]))])
    /\ cr_pc' = "heatmap"
    /\ UNCHANGED <<cr_err, cr_df, corrPlot, dailyCorr, dailyCorrPlot>>
    /\ UNCHANGED <<scorerVars, newsCsv, panelVars, leadLagVars, fetchVars>>

\* main, lines 70-83: the heatmap is saved, the key correlation printed
CorrHeatmap ==
    /\ cr_pc = "heatmap"
    /\ corrPlot' = TRUE
    /\ cr_pc' = "rolling"
    /\ UNCHANGED <<cr_err, cr_df, corrTable, dailyCorr, dailyCorrPlot>>
    /\ UNCHANGED <<scorerVars, newsCsv, panelVars, leadLagVars, fetchVars>>

\* main, lines 85-97: one rolling-correlation column per sentiment column,
\* the DATE and RCORR_RETURN_ columns saved
RollingTable(rows) ==
    [i \in DOMAIN rows |->
        [c \in {"DATE"} \cup RcorrCols(DOMAIN rows[i]) |->
            IF c = "DATE" THEN IsoString(rows[i]["DATE"])
            ELSE rolling_corr(rows, RcorrSource(c), ROLL_WINDOW_DAYS, i)]]

CorrRolling_abort ==
    /\ cr_pc = "rolling"
    /\ cr_pc' = "raised" /\ cr_err' = "ValueError"
    /\ UNCHANGED <<cr_df, corrTable, corrPlot, dailyCorr, dailyCorrPlot>>
    /\ UNCHANGED <<scorerVars, newsCsv, panelVars, leadLagVars, fetchVars>>

CorrRolling ==
    /\ cr_pc = "rolling"
    /\ dailyCorr' = File({"DATE"} \cup RcorrCols(NumCols), RollingTable(cr_df))
    /\ cr_pc' = "plot"
    /\ UNCHANGED <<cr_err, cr_df, corrTable, corrPlot, dailyCorrPlot>>
    /\ UNCHANGED <<scorerVars, newsCsv, panelVars, leadLagVars, fetchVars>>

\* main, lines 99-113: the rolling-correlation plot, when the column exists
CorrPlot ==
    /\ cr_pc = "plot"
    /\ dailyCorrPlot' = ("RCORR_RETURN_DAILY_SENTIMENT_5d" \in dailyCorr.cols)
    /\ cr_pc' = "done"
    /\ UNCHANGED <<cr_err, cr_df, corrTable, corrPlot, dailyCorr>>
    /\ UNCHANGED <<scorerVars, newsCsv, panelVars, leadLagVars, fetchVars>>

CorrIdle == /\ cr_err = "" /\ cr_df = <<>> /\ corrTable = NoFile /\ corrPlot = FALSE
            /\ dailyCorr = NoFile /\ dailyCorrPlot = FALSE

----------------------------------------------------------------------------
(* lead_lag_sentiment_return.py *)

\* df["RETURN"].shift(-1): the value of the next row, missing on the last row
shift_back_mut(col) == col

shift_back(col) == [i \in DOMAIN col |-> IF i < Len(col) THEN col[i + 1] ELSE NaN]

\* df[["DATE", "DAILY_SENTIMENT", "RETURN_TOMORROW"]].dropna()
LeadLagFrame(df) ==
    LET tomorrow == shift_back([i \in DOMAIN df |-> df[i]["RETURN"]])
        all == [i \in DOMAIN df |->
                  [DATE |-> df[i]["DATE"], DAILY_SENTIMENT |-> df[i]["DAILY_SENTIMENT"],
                   RETURN_TOMORROW |-> tomorrow[i]]]
    IN  SelectSeq(all, LAMBDA r : /\ r["DATE"] # NaT /\ ~IsNaN(r["DAILY_SENTIMENT"])
                                  /\ ~IsNaN(r["RETURN_TOMORROW"]))

\* main, lines 19-46
LeadLagLoad ==
    /\ ll_pc = "start"
    /\ panelCsv.exists
    /\ IF "DATE" \notin panelCsv.cols
       THEN ll_pc' = "raised" /\ ll_err' = "KeyError" /\ UNCHANGED <<ll_df, lead_lag>>
       ELSE IF \E i \in DOMAIN panelCsv.rows : ParseIso(panelCsv.rows[i]["DATE"]) = NaT
       THEN ll_pc' = "raised" /\ ll_err' = "ValueError" /\ UNCHANGED <<ll_df, lead_lag>>
       ELSE IF ~({"RETURN", "DAILY_SENTIMENT"} \subseteq panelCsv.cols)
       THEN ll_pc' = "raised" /\ ll_err' = "KeyError" /\ UNCHANGED <<ll_df, lead_lag>>
       ELSE LET df == date_filter(ReadPanel(panelCsv), LL_START_DATE, LL_END_DATE)
            IN  IF empty(df)
                THEN /\ ll_pc' = "raised" /\ ll_err' = "ValueError"
                     /\ ll_df' = df /\ UNCHANGED lead_lag
                ELSE IF empty(LeadLagFrame(df))
                THEN /\ ll_pc' = "raised" /\ ll_err' = "ValueError"
                     /\ ll_df' = df /\ lead_lag' = LeadLagFrame(df)
                ELSE /\ ll_pc' = "corr" /\ ll_df' = df /\ lead_lag' = LeadLagFrame(df)
                     /\ UNCHANGED ll_err
    /\ UNCHANGED <<corr_val, leadLagCsv, leadLagPlot>>
    /\ UNCHANGED <<scorerVars, newsCsv, panelVars, corrVars, fetchVars>>

\* main, lines 48-59: the lead/lag correlation, the table saved
LeadLagSave ==
    /\ ll_pc = "corr"
    /\ corr_val' = Corr(PairSample(lead_lag, "DAILY_SENTIMENT", "RETURN_TOMORROW"))
    /\ leadLagCsv' = File({"DATE", "DAILY_SENTIMENT", "RETURN_TOMORROW"}, to_csv(lead_lag))
    /\ ll_pc' = "chart"
    /\ UNCHANGED <<ll_err, ll_df, lead_lag, leadLagPlot>>
    /\ UNCHANGED <<scorerVars, newsCsv, panelVars, corrVars, fetchVars>>

\* main, lines 61-97: the line chart
LeadLagChart ==
    /\ ll_pc = "chart"
    /\ leadLagPlot' = TRUE
    /\ ll_pc' = "done"
    /\ UNCHANGED <<ll_err, ll_df, lead_lag, corr_val, leadLagCsv>>
    /\ UNCHANGED <<scorerVars, newsCsv, panelVars, corrVars, fetchVars>>

LeadLagIdle == /\ ll_err = "" /\ ll_df = <<>> /\ lead_lag = <<>> /\ corr_val = MissingCorr
               /\ leadLagCsv = NoFile /\ leadLagPlot = FALSE

----------------------------------------------------------------------------
(* fetch_news.py.  The file it writes, news_AAPL.O.csv under data/raw, is   *)
(* the scorer's INPUT_CSV.                                                  *)

\* rename_map, applied to the columns that are present
rename_map(c) == CASE c = "headline"   -> "HEADLINE"
                   [] c = "storyId"    -> "STORY_ID"
                   [] c = "sourceCode" -> "SOURCE"
                   [] OTHER            -> c

keep_cols == {"TIMESTAMP", "DATE", "HEADLINE", "SOURCE", "STORY_ID", "RIC"}

\* the columns of the frame after lines 57-89
FetchCols(res) ==
    keep_cols \cap ({rename_map(c) : c \in res.cols} \cup {"TIMESTAMP", "DATE", "RIC"})

\* main, lines 57-89: the index becomes TIMESTAMP, columns are renamed,
\* TIMESTAMP is parsed and DATE derived, rows without a timestamp and rows
\* outside [START_DATE, END_DATE] are dropped, the needed columns kept
FetchFrame(res) ==
    LET named == [i \in DOMAIN res.rows |->
                    [c \in FetchCols(res) |->
                        CASE c \in {"TIMESTAMP", "DATE"} -> ParseIso(res.rows[i]["index"])
                          [] c = "RIC" -> "AAPL.O"
                          [] OTHER -> res.rows[i][CHOOSE o \in res.cols : rename_map(o) = c]]]
    IN  SelectSeq(named, LAMBDA r : /\ r["TIMESTAMP"] # NaT
                                    /\ r["DATE"] >= FN_START_DATE
                                    /\ r["DATE"] <= FN_END_DATE)

\* df.drop_duplicates(subset=["STORY_ID"]): the first row of every id is kept
drop_duplicates_mut(rows) == rows

drop_duplicates(rows) ==
    LET first == {i \in DOMAIN rows :
                     \A j \in 1..(i - 1) : rows[j]["STORY_ID"] # rows[i]["STORY_ID"]}
    IN  [k \in 1..Cardinality(first) |-> rows[SortSet(first)[k]]]

\* df.sort_values("TIMESTAMP"): the default sort is not stable, rows with
\* equal timestamps come out in any order
SortedByTimestamp(rows) ==
    { [k \in DOMAIN rows |-> rows[p[k]]] :
        p \in { q \in [DOMAIN rows -> DOMAIN rows] :
                  /\ \A i, j \in DOMAIN rows : i # j => q[i] # q[j]
                  /\ \A i, j \in DOMAIN rows :
                        i < j => rows[q[i]]["TIMESTAMP"] <= rows[q[j]]["TIMESTAMP"] } }

\* main, lines 46-89: fetch, return early on an empty result, build the frame
FetchPrepare ==
    /\ fn_pc = "start"
    /\ IF empty(fetched.rows)
       THEN fn_pc' = "returned" /\ UNCHANGED fn_df
       ELSE fn_pc' = "dedup" /\ fn_df' = FetchFrame(fetched)
    /\ UNCHANGED <<fetched, scorerVars, newsCsv, panelVars, corrVars, leadLagVars>>

\* main, lines 91-100: duplicate stories removed, sorted by time, saved
FetchSave ==
    /\ fn_pc = "dedup"
    /\ \E out \in SortedByTimestamp(IF "STORY_ID" \in FetchCols(fetched)
                                     THEN drop_duplicates(fn_df) ELSE fn_df) :
          /\ fn_df' = out
          /\ inputCsv' = File(FetchCols(fetched), to_csv(out))
    /\ fn_pc' = "done"
    /\ UNCHANGED <<fetched, sc_pc, sc_err, sc_hcol, sc_df, sc_dropped, sc_idx, batch_size,
                   sc_i, sc_calls, all_pos, all_neg, all_neu>>
    /\ UNCHANGED <<newsCsv, panelVars, corrVars, leadLagVars>>

NoResult == [cols |-> {}, rows |-> <<>>]

FetchIdle == fetched = NoResult /\ fn_pc = "idle" /\ fn_df = <<>>

----------------------------------------------------------------------------
(* The files the scripts are run on *)
HeadlineKinds == { <<"t1", <<2025, 8, 13>>>>, <<"t2", <<2025, 10, 9>>>>,
                   <<"", <<2025, 8, 13>>>>,   <<"t3", <<0, 0, 0>>>> }

RawRow(cols, kind) == [c \in cols |-> IF c = "TIMESTAMP" THEN kind[2] ELSE kind[1]]

RawFile(cols, ks) == File(cols, [i \in DOMAIN ks |-> RawRow(cols, ks[i])])

\* raw headline files: every sequence of rows under the usual columns, and
\* short files under another headline column name or with a column absent
InputFiles ==
    {NoFile}
    \cup { RawFile({"HEADLINE", "TIMESTAMP"}, ks) : ks \in SeqsUpTo(HeadlineKinds, MaxHeadlines) }
    \cup { RawFile(cols, ks) :
             cols \in { {"title", "TIMESTAMP"}, {"TIMESTAMP"}, {"HEADLINE"} },
             ks \in SeqsUpTo(HeadlineKinds, 2) }

BatchSizes == (1..MaxBatch) \cup {BATCH_SIZE}

\* rows of a scored headline file: DATE as the scorer writes it (dd/mm/yyyy)
NewsKinds ==
    { [DATE |-> <<13, 8, 2025>>, FINBERT_POS |-> <<3, 5>>, FINBERT_NEG |-> <<2, 5>>,
       FINBERT_NEU |-> <<0, 1>>, FINBERT_SCORE |-> <<1, 5>>, FINBERT_LABEL |-> "positive"],
      [DATE |-> <<13, 8, 2025>>, FINBERT_POS |-> <<1, 5>>, FINBERT_NEG |-> <<3, 5>>,
       FINBERT_NEU |-> <<1, 5>>, FINBERT_SCORE |-> <<-2, 5>>, FINBERT_LABEL |-> "negative"],
      [DATE |-> <<13, 8, 2025>>, FINBERT_POS |-> NaN, FINBERT_NEG |-> NaN,
       FINBERT_NEU |-> NaN, FINBERT_SCORE |-> NaN, FINBERT_LABEL |-> "neutral"],
      [DATE |-> <<9, 10, 2025>>, FINBERT_POS |-> <<2, 5>>, FINBERT_NEG |-> <<3, 10>>,
       FINBERT_NEU |-> <<3, 10>>, FINBERT_SCORE |-> <<1, 10>>, FINBERT_LABEL |-> "positive"] }

Without(rows, col) ==
    [i \in DOMAIN rows |-> [c \in DOMAIN rows[i] \ {col} |-> rows[i][c]]]

NewsFiles ==
    { File(sentiment_cols, rows) : rows \in SeqsUpTo(NewsKinds, MaxNews) }
    \cup { File(sentiment_cols \ {col}, Without(rows, col)) :
             col \in {"DATE", "FINBERT_LABEL"}, rows \in SeqsUpTo(NewsKinds, 1) }

\* daily price bars: one per date, and one bar whose timestamp does not parse
PriceBars ==
    { [TIMESTAMP |-> <<2025, 8, 13>>,  TRDPRC_1 |-> <<100, 1>>],
      [TIMESTAMP |-> <<2025, 9, 10>>,  TRDPRC_1 |-> <<105, 1>>],
      [TIMESTAMP |-> <<2025, 10, 9>>,  TRDPRC_1 |-> <<103, 1>>],
      [TIMESTAMP |-> <<0, 0, 0>>,      TRDPRC_1 |-> <<99, 1>>] }

\* price files: the bars of any subset of the dates, in any order
PriceFiles ==
    { File({"TIMESTAMP", "TRDPRC_1"}, rows) :
        rows \in { s \in SeqsUpTo(PriceBars, Cardinality(PriceBars)) :
                     \A i, j \in DOMAIN s : i # j => s[i] # s[j] } }

\* Longer panels for the analytics scripts: the panel builder's output for a
\* price series over the days below (or all but the first) and a daily
\* aggregate over any subset of them.
PanelDays == <<20250807, 20250808, 20250811, 20250812, 20250813, 20250814,
               20251117, 20251118>>

PanelCloses == <<100, 105, 103, 104, 110, 99, 120, 125>>

PanelSentiments == << <<1, 10>>, <<1, 5>>, <<-2, 5>>, <<3, 10>>, <<-1, 10>>, <<1, 2>>,
                      <<2, 5>>, <<-3, 10>> >>

LongPrices(from) ==
    File({"TIMESTAMP", "TRDPRC_1"},
         [k \in 1..(Len(PanelDays) - from + 1) |->
            [TIMESTAMP |-> IsoString(PanelDays[k + from - 1]),
             TRDPRC_1  |-> <<PanelCloses[k + from - 1], 1>>]])

LongDaily(N) ==
    LET ks == SortSet(N)
    IN  [i \in DOMAIN ks |->
            [DATE |-> PanelDays[ks[i]], DAILY_SENTIMENT |-> PanelSentiments[ks[i]],
             NUM_HEADLINES |-> <<ks[i], 1>>, POS_SHARE |-> <<1, ks[i]>>,
             NEG_SHARE |-> <<0, 1>>]]

LongPanel(from, N) == to_csv(merge(load_prices(LongPrices(from)).rows, LongDaily(N)))

PanelFiles ==
    { File(PanelCols, LongPanel(from, N)) : from \in 1..2, N \in SUBSET DOMAIN PanelDays }
    \cup { File(PanelCols \ {col}, Without(LongPanel(1, N), col)) :
             col \in {"DATE", "RETURN", "DAILY_SENTIMENT"}, N \in SUBSET (1..3) }

\* a run of the scorer on a raw headline file
InitScorer ==
    /\ inputCsv \in InputFiles
    /\ batch_size \in BatchSizes
    /\ sc_pc = "start"
    /\ ScorerIdle
    /\ newsCsv = NoFile
    /\ pricesCsv = NoFile /\ panelCsv = NoFile
    /\ pb_pc = "idle" /\ PanelIdle
    /\ cr_pc = "idle" /\ CorrIdle
    /\ ll_pc = "idle" /\ LeadLagIdle
    /\ FetchIdle

\* a run of the panel builder on a scored headline file and a price file,
\* followed by the two analytics scripts on the panel it wrote
InitPanel ==
    /\ inputCsv = NoFile /\ batch_size = BATCH_SIZE /\ sc_pc = "idle" /\ ScorerIdle
    /\ newsCsv \in NewsFiles
    /\ pricesCsv \in PriceFiles
    /\ panelCsv = NoFile
    /\ pb_pc = "start" /\ PanelIdle
    /\ cr_pc = "start" /\ CorrIdle
    /\ ll_pc = "start" /\ LeadLagIdle
    /\ FetchIdle

\* a run of the two analytics scripts on a panel file
InitAnalytics ==
    /\ inputCsv = NoFile /\ batch_size = BATCH_SIZE /\ sc_pc = "idle" /\ ScorerIdle
    /\ newsCsv = NoFile /\ pricesCsv = NoFile
    /\ panelCsv \in PanelFiles
    /\ pb_pc = "idle" /\ PanelIdle
    /\ cr_pc = "start" /\ CorrIdle
    /\ ll_pc = "start" /\ LeadLagIdle
    /\ FetchIdle

\* what the news service returns: (timestamp, story id, headline) rows, with
\* ids repeated inside and across the date range and a row without timestamp
FetchedKinds == { << <<2025, 8, 13>>, "s1", "t1" >>, << <<2025, 10, 9>>, "s1", "t2" >>,
                  << <<2025, 8, 9>>,  "s2", "t3" >>, << <<2025, 8, 13>>, "s2", "t3" >>,
                  << <<0, 0, 0>>,     "s3", "t1" >> }

FetchedRow(cols, kind) ==
    [c \in cols \cup {"index"} |->
        CASE c = "index" -> kind[1] [] c = "headline" -> kind[3] [] OTHER -> kind[2]]

FetchedResults ==
    { [cols |-> cols, rows |-> [i \in DOMAIN ks |-> FetchedRow(cols, ks[i])]] :
        cols \in { {"headline", "storyId"}, {"headline", "STORY_ID"}, {"headline"} },
        ks \in SeqsUpTo(FetchedKinds, MaxFetched) }

\* a run of the news fetcher
InitFetch ==
    /\ fetched \in FetchedResults /\ fn_pc = "start" /\ fn_df = <<>>
    /\ inputCsv = NoFile /\ batch_size = BATCH_SIZE /\ sc_pc = "idle" /\ ScorerIdle
    /\ newsCsv = NoFile /\ pricesCsv = NoFile /\ panelCsv = NoFile
    /\ pb_pc = "idle" /\ PanelIdle
    /\ cr_pc = "idle" /\ CorrIdle
    /\ ll_pc = "idle" /\ LeadLagIdle

\* price files of two bars
TwoBarFiles == { f \in PriceFiles : Len(f.rows) = 2 }

\* a run of the scorer followed by a run of the panel builder on its output
InitPipeline ==
    /\ inputCsv \in { RawFile({"HEADLINE", "TIMESTAMP"}, ks) :
                         ks \in SeqsUpTo(HeadlineKinds, MaxHeadlines) }
    /\ batch_size = BATCH_SIZE
    /\ sc_pc = "start" /\ ScorerIdle
    /\ newsCsv = NoFile
    /\ pricesCsv \in TwoBarFiles
    /\ panelCsv = NoFile
    /\ pb_pc = "start" /\ PanelIdle
    /\ cr_pc = "idle" /\ CorrIdle
    /\ ll_pc = "idle" /\ LeadLagIdle
    /\ FetchIdle

Init == InitScorer \/ InitPanel \/ InitAnalytics \/ InitFetch \/ InitPipeline

Next ==
    \/ ScorerPrepare \/ ScorerLoad \/ ScoreBatch \/ ScoreReturn \/ ScorerSave
    \/ PanelLoadNews \/ PanelLoadPrices \/ PanelMergeSave
    \/ CorrLoad \/ CorrGlobal \/ CorrHeatmap \/ CorrRolling \/ CorrPlot
    \/ LeadLagLoad \/ LeadLagSave \/ LeadLagChart
    \/ FetchPrepare \/ FetchSave

Spec == Init /\ [][Next]_vars

\* The scorer on its own.  main() is one sequential thread: a loop iteration
\* that can run does run, and so does the return that follows the loop.
ScorerNext == ScorerPrepare \/ ScorerLoad \/ ScoreBatch \/ ScoreReturn \/ ScorerSave

ScorerSpec ==
    /\ InitScorer
    /\ [][ScorerNext]_vars
    /\ WF_vars(ScoreBatch)
    /\ WF_vars(ScoreReturn)

----------------------------------------------------------------------------
(* Claims about the scorer *)

\* the probability the model produced for text t at class index idx
ModelProb(t, idx) == Frac(FinBERT(t)[idx + 1], 100)

\* C1: score_with_finbert returns three lists of exactly n elements, and the
\* i-th element of each list is the probability the model produced for the
\* i-th input text; while the loop runs the lists hold exactly the results of
\* the inputs consumed so far, in input order.
C1_ScoresAlignWithInputs ==
    sc_pc \in {"score", "save", "done"} =>
        LET n    == Len(Headlines)
            done == IF sc_pc = "score" THEN Min(sc_i, n) ELSE n
        IN  /\ Len(all_pos) = done /\ Len(all_neg) = done /\ Len(all_neu) = done
            /\ \A i \in 1..done :
                  /\ all_pos[i] = ModelProb(Headlines[i], sc_idx.pos_idx)
                  /\ all_neg[i] = ModelProb(Headlines[i], sc_idx.neg_idx)
                  /\ all_neu[i] = ModelProb(Headlines[i], sc_idx.neu_idx)

\* C1 witness: a run returned after several batches over differing texts
C1_Witness ==
    /\ sc_pc = "save" /\ Len(sc_calls) >= 2 /\ Len(Headlines) >= 3
    /\ Headlines[1] # Headlines[2]
    /\ all_pos[1] # all_pos[2]

\* C2: in the file the scorer wrote the label is a function of the score alone:
\* "positive" iff score > 0.05, "negative" iff score < -0.05, "neutral"
\* otherwise (so exactly 0.05 and exactly -0.05 are "neutral"), and the score
\* is the positive minus the negative probability.
C2_LabelFromScore ==
    sc_pc = "done" =>
        \A i \in DOMAIN newsCsv.rows :
            LET r == newsCsv.rows[i]
                x == r["FINBERT_SCORE"]
                l == r["FINBERT_LABEL"]
            IN  /\ x = FSub(r["FINBERT_POS"], r["FINBERT_NEG"])
                /\ l \in {"positive", "negative", "neutral"}
                /\ (l = "positive") <=> (20 * x[1] > x[2])
                /\ (l = "negative") <=> (20 * x[1] < -x[2])
                /\ (x = <<1, 20>> \/ x = <<-1, 20>>) => l = "neutral"

\* C2 witness: a written row whose score is exactly 0.05, next to a row with
\* another label
C2_Witness ==
    /\ sc_pc = "done" /\ newsCsv.exists
    /\ \E i, j \in DOMAIN newsCsv.rows :
          /\ newsCsv.rows[i]["FINBERT_SCORE"] = <<1, 20>>
          /\ newsCsv.rows[i]["FINBERT_LABEL"] = "neutral"
          /\ newsCsv.rows[j]["FINBERT_LABEL"] = "negative"

\* C3: the three class indices are pairwise distinct and cover all classes
\* of the softmax output, and the three probabilities returned for every
\* headline sum to 1.
C3_ProbabilitiesSumToOne ==
    sc_pc \in {"score", "save", "done"} =>
        /\ Cardinality({sc_idx.pos_idx, sc_idx.neg_idx, sc_idx.neu_idx}) = NumClasses
        /\ {sc_idx.pos_idx, sc_idx.neg_idx, sc_idx.neu_idx} = 0..(NumClasses - 1)
        /\ \A i \in DOMAIN all_pos :
              FAdd(FAdd(all_pos[i], all_neg[i]), all_neu[i]) = <<1, 1>>

\* C3 witness: a scored run under a label order other than (positive,
\* negative, neutral)
C3_Witness ==
    /\ sc_pc = "done" /\ sc_idx.pos_idx = 1 /\ sc_idx.neu_idx = 0
    /\ Len(all_pos) >= 2

----------------------------------------------------------------------------
(* Claims about the panel builder *)

\* the calendar date a "dd/mm/yyyy" string of the scorer denotes
DateWritten(str) == MkDate(str[3], str[2], str[1])

\* the dates of the price bars and of the scored headlines on disk
PriceDates == {ParseIso(pricesCsv.rows[i]["TIMESTAMP"]) : i \in DOMAIN pricesCsv.rows} \ {NaT}

HeadlineDates == {DateWritten(newsCsv.rows[i]["DATE"]) : i \in DOMAIN newsCsv.rows}

HeadlinesOf(D) == SelectSeq(newsCsv.rows, LAMBDA r : DateWritten(r["DATE"]) = D)

\* the dates with at least one headline row whose score is not missing
ScoredDates ==
    {D \in HeadlineDates :
        \E i \in DOMAIN HeadlinesOf(D) : ~IsNaN(HeadlinesOf(D)[i]["FINBERT_SCORE"])}

PanelDates == {ParseIso(panelCsv.rows[i]["DATE"]) : i \in DOMAIN panelCsv.rows}

FDiv(x, y) == Frac(x[1] * y[2], x[2] * y[1])

\* the mean of the non-missing scores of a sequence of headline rows
MeanScore(g) ==
    LET valid == SelectSeq(g, LAMBDA r : ~IsNaN(r["FINBERT_SCORE"]))
    IN  IF valid = <<>> THEN NaN
        ELSE FDiv(FSum([i \in DOMAIN valid |-> valid[i]["FINBERT_SCORE"]]), <<Len(valid), 1>>)

Share(g, label) == Frac(Cardinality({i \in DOMAIN g : g[i]["FINBERT_LABEL"] = label}), Len(g))

\* C4: the panel is a strict inner join on date: a date appears in a panel
\* row iff it is the date of a price bar and of a scored headline, and the
\* sentiment columns of a row are the daily aggregate of the row's own date.
C4_PanelIsInnerJoinOnDate ==
    pb_pc = "done" =>
        /\ PanelDates = PriceDates \cap HeadlineDates
        /\ \A i \in DOMAIN panelCsv.rows :
              LET D == ParseIso(panelCsv.rows[i]["DATE"])
              IN  /\ HeadlinesOf(D) # <<>>
                  /\ panelCsv.rows[i]["DAILY_SENTIMENT"] = MeanScore(HeadlinesOf(D))

\* load_news reads every DATE of the file as the date the string denotes
DatesReadAsWritten ==
    \A i \in DOMAIN newsCsv.rows :
        NewsDated(newsCsv.rows)[i]["DATE"] = DateWritten(newsCsv.rows[i]["DATE"])

\* C5: load_news returns exactly one row per calendar date with a scored
\* headline, carrying the mean score, the number of headline rows of that
\* date (missing scores included) and the positive and negative shares.
\* Stated here for the files whose dates load_news reads as written.
C5_DailyAggregatePerDate ==
    (pb_pc \in {"news", "prices", "done"} /\ DatesReadAsWritten) =>
        \A D \in ScoredDates :
            /\ Cardinality({k \in DOMAIN pb_news : pb_news[k]["DATE"] = D}) = 1
            /\ \A k \in DOMAIN pb_news :
                  pb_news[k]["DATE"] = D =>
                      /\ pb_news[k]["DAILY_SENTIMENT"] = MeanScore(HeadlinesOf(D))
                      /\ pb_news[k]["NUM_HEADLINES"] = <<Len(HeadlinesOf(D)), 1>>
                      /\ pb_news[k]["POS_SHARE"] = Share(HeadlinesOf(D), "positive")
                      /\ pb_news[k]["NEG_SHARE"] = Share(HeadlinesOf(D), "negative")

\* the close of the price bar of date D, and the return the price series
\* gives D: close[D] / close[previous date of the series] - 1
CloseOn(D) ==
    LET i == CHOOSE i \in DOMAIN pricesCsv.rows : ParseIso(pricesCsv.rows[i]["TIMESTAMP"]) = D
    IN  pricesCsv.rows[i]["TRDPRC_1"]

SeriesReturn(D) ==
    LET earlier == {E \in PriceDates : E < D}
    IN  IF earlier = {} THEN NaN
        ELSE LET prev == CHOOSE E \in earlier : \A F \in earlier : F <= E
             IN  FSub(FDiv(CloseOn(D), CloseOn(prev)), <<1, 1>>)

ReturnsFromSeries ==
    /\ pb_pc \in {"prices", "done"} =>
          /\ \A i \in DOMAIN pb_prices :
                pb_prices[i]["DATE"] # NaT =>
                    pb_prices[i]["RETURN"] = SeriesReturn(pb_prices[i]["DATE"])
          /\ \A i, j \in DOMAIN pb_prices :
                (i < j /\ pb_prices[j]["DATE"] # NaT) =>
                    (pb_prices[i]["DATE"] # NaT /\ pb_prices[i]["DATE"] < pb_prices[j]["DATE"])
    /\ pb_pc = "done" =>
          \A i \in DOMAIN panelCsv.rows :
              panelCsv.rows[i]["RETURN"] = SeriesReturn(ParseIso(panelCsv.rows[i]["DATE"]))

CorrBuilt == cr_pc \in {"global", "heatmap", "rolling", "plot", "done"}

LeadLagBuilt == ll_pc \in {"corr", "chart", "done"}

NoMissingPair(c) == \A k \in DOMAIN c.of : ~IsNaN(c.of[k][1]) /\ ~IsNaN(c.of[k][2])

\* no missing RETURN value is an observation of a return-based statistic
NoMissingReturnUsed ==
    /\ CorrBuilt => \A i \in DOMAIN cr_df : ~IsNaN(cr_df[i]["RETURN"])
    /\ corrTable.exists =>
          \A p \in DOMAIN corrTable.rows : NoMissingPair(corrTable.rows[p])
    /\ dailyCorr.exists =>
          \A i \in DOMAIN dailyCorr.rows : \A c \in DOMAIN dailyCorr.rows[i] \ {"DATE"} :
              NoMissingPair(dailyCorr.rows[i][c])
    /\ LeadLagBuilt =>
          /\ \A k \in DOMAIN lead_lag : ~IsNaN(lead_lag[k]["RETURN_TOMORROW"])
          /\ NoMissingPair(corr_val)

\* C6 as claimed: returns come from the date-ordered price series, and a row
\* with a missing RETURN contributes to no return-based statistic, the
\* lead/lag table and correlation included.
C6_AsClaimed ==
    /\ ReturnsFromSeries
    /\ NoMissingReturnUsed
    /\ LeadLagBuilt =>
          \A i \in DOMAIN ll_df :
              IsNaN(ll_df[i]["RETURN"]) =>
                  \A k \in DOMAIN lead_lag : lead_lag[k]["DATE"] # ll_df[i]["DATE"]

\* C6 (amended): returns come from the date-ordered price series whatever
\* the order of the file and whether or not the previous date survives the
\* join, the earliest date has a missing RETURN, and no missing RETURN value
\* is an observation of the correlation matrix, the rolling correlation or
\* the lead/lag correlation.
C6_ReturnsFromPriceSeries == ReturnsFromSeries /\ NoMissingReturnUsed

\* C6 witness: an unsorted price file, a panel row whose previous price date
\* did not survive the join, and a lead/lag table built from a slice whose
\* first row has no RETURN
C6_Witness ==
    /\ pb_pc = "done" /\ LeadLagBuilt /\ cr_pc = "done"
    /\ \E i \in DOMAIN pricesCsv.rows :
          i < Len(pricesCsv.rows) /\
          ParseIso(pricesCsv.rows[i]["TIMESTAMP"]) > ParseIso(pricesCsv.rows[i + 1]["TIMESTAMP"])
    /\ \E i \in DOMAIN panelCsv.rows :
          /\ ~IsNaN(panelCsv.rows[i]["RETURN"])
          /\ \E E \in PriceDates \ PanelDates :
                /\ E < ParseIso(panelCsv.rows[i]["DATE"])
                /\ \A F \in PanelDates : F < ParseIso(panelCsv.rows[i]["DATE"]) => F < E
    /\ IsNaN(ll_df[1]["RETURN"])
    /\ lead_lag[1]["DATE"] = ll_df[1]["DATE"]

----------------------------------------------------------------------------
(* Claims about the analytics scripts *)

\* the rows of the panel file inside [lo, hi]
InRange(lo, hi) ==
    SelectSeq(ReadPanel(panelCsv), LAMBDA r : lo <= r["DATE"] /\ r["DATE"] <= hi)

\* C7's precondition on the date-filtered panel: at least two rows, no
\* missing value other than possibly the return of the first row
CompleteSlice ==
    /\ Len(ll_df) >= 2
    /\ \A i \in DOMAIN ll_df :
          /\ ~IsNaN(ll_df[i]["DAILY_SENTIMENT"])
          /\ i > 1 => ~IsNaN(ll_df[i]["RETURN"])

\* C7: for a date-filtered panel D1 < ... < Dn as above the run is not
\* aborted and the lead/lag table has n-1 rows, the k-th carrying Dk, the
\* sentiment of Dk and the return of D(k+1); Dn does not appear.
C7_LeadLagPairsNextReturn ==
    (ll_pc \notin {"idle", "start"} /\ "DATE" \in panelCsv.cols /\ CompleteSlice) =>
        /\ ll_pc # "raised"
        /\ \A i \in 1..(Len(ll_df) - 1) : ll_df[i]["DATE"] < ll_df[i + 1]["DATE"]
        /\ Len(lead_lag) = Len(ll_df) - 1
        /\ \A k \in DOMAIN lead_lag :
              lead_lag[k] = [DATE            |-> ll_df[k]["DATE"],
                             DAILY_SENTIMENT |-> ll_df[k]["DAILY_SENTIMENT"],
                             RETURN_TOMORROW |-> ll_df[k + 1]["RETURN"]]
        /\ leadLagCsv.exists => leadLagCsv.rows = to_csv(lead_lag)

\* C7 witness: a saved table over a slice of four rows or more whose first
\* row has no return
C7_Witness ==
    /\ ll_pc = "done" /\ CompleteSlice /\ Len(ll_df) >= 4
    /\ IsNaN(ll_df[1]["RETURN"])
    /\ Len(leadLagCsv.rows) = Len(ll_df) - 1

\* C8: every rolling-correlation column is missing on each of the first
\* ROLL_WINDOW_DAYS - 1 rows of the table, so a slice of fewer rows than the
\* window has only missing rolling correlations.
C8_RollingMissingBeforeWindow ==
    dailyCorr.exists =>
        /\ Len(dailyCorr.rows) = Len(cr_df)
        /\ \A i \in DOMAIN dailyCorr.rows :
              \A c \in dailyCorr.cols \ {"DATE"} :
                  (i <= ROLL_WINDOW_DAYS - 1 \/ Len(dailyCorr.rows) < ROLL_WINDOW_DAYS)
                      => dailyCorr.rows[i][c].nan

\* C8 witness: a table whose rolling correlation is defined from the row
\* that completes the first window
C8_Witness ==
    /\ dailyCorr.exists
    /\ Len(dailyCorr.rows) > ROLL_WINDOW_DAYS
    /\ ~dailyCorr.rows[ROLL_WINDOW_DAYS]["RCORR_RETURN_DAILY_SENTIMENT_5d"].nan

\* the observations of a correlation all come from the rows `rows`
SampleFrom(c, rows, a, b) ==
    \A k \in DOMAIN c.of : \E i \in DOMAIN rows : c.of[k] = <<rows[i][a], rows[i][b]>>

\* C9: every panel row behind a statistic or a written table lies inside
\* [START_DATE, END_DATE], bounds included, and the return a lead/lag row
\* takes from its next row comes from a row inside the range.
C9_OnlyRowsInRange ==
    /\ CorrBuilt =>
          \A i \in DOMAIN cr_df :
              /\ START_DATE <= cr_df[i]["DATE"] /\ cr_df[i]["DATE"] <= END_DATE
              /\ \E j \in DOMAIN InRange(START_DATE, END_DATE) :
                    \A c \in DOMAIN cr_df[i] :
                        cr_df[i][c] = InRange(START_DATE, END_DATE)[j][c]
    /\ corrTable.exists =>
          \A p \in DOMAIN corrTable.rows :
              SampleFrom(corrTable.rows[p], InRange(START_DATE, END_DATE), p[1], p[2])
    /\ dailyCorr.exists =>
          \A i \in DOMAIN dailyCorr.rows :
              /\ START_DATE <= ParseIso(dailyCorr.rows[i]["DATE"])
              /\ ParseIso(dailyCorr.rows[i]["DATE"]) <= END_DATE
              /\ \A c \in dailyCorr.cols \ {"DATE"} :
                    SampleFrom(dailyCorr.rows[i][c], InRange(START_DATE, END_DATE),
                               "RETURN", RcorrSource(c))
    /\ LeadLagBuilt =>
          /\ \A k \in DOMAIN lead_lag :
                /\ LL_START_DATE <= lead_lag[k]["DATE"] /\ lead_lag[k]["DATE"] <= LL_END_DATE
                /\ \E j \in DOMAIN InRange(LL_START_DATE, LL_END_DATE) :
                      LET r == InRange(LL_START_DATE, LL_END_DATE)[j]
                      IN  /\ r["DATE"] > lead_lag[k]["DATE"]
                          /\ r["RETURN"] = lead_lag[k]["RETURN_TOMORROW"]
          /\ SampleFrom(corr_val, lead_lag, "DAILY_SENTIMENT", "RETURN_TOMORROW")
    /\ leadLagCsv.exists =>
          \A k \in DOMAIN leadLagCsv.rows :
              /\ LL_START_DATE <= ParseIso(leadLagCsv.rows[k]["DATE"])
              /\ ParseIso(leadLagCsv.rows[k]["DATE"]) <= LL_END_DATE

\* C9 witness: both scripts ran on a panel with rows before START_DATE, on
\* START_DATE, on END_DATE and after END_DATE
C9_Witness ==
    /\ cr_pc = "done" /\ ll_pc = "done"
    /\ {20250807, START_DATE, END_DATE, 20251118} \subseteq PanelDates
    /\ cr_df[Len(cr_df)]["DATE"] = END_DATE
    /\ lead_lag[1]["DATE"] = LL_START_DATE
    /\ lead_lag[Len(lead_lag)]["DATE"] < LL_END_DATE

----------------------------------------------------------------------------
(* Claims about errors *)

ScorerColumnAbsent ==
    /\ inputCsv.exists
    /\ find_headline_column(inputCsv.cols) = "" \/ "TIMESTAMP" \notin inputCsv.cols

PanelColumnAbsent == newsCsv.exists /\ ~(sentiment_cols \subseteq newsCsv.cols)

AnalyticsColumnAbsent == panelCsv.exists /\ ~({"DATE", "RETURN"} \subseteq panelCsv.cols)

CorrWroteNothing == ~corrTable.exists /\ ~corrPlot /\ ~dailyCorr.exists /\ ~dailyCorrPlot

LeadLagWroteNothing == ~leadLagCsv.exists /\ ~leadLagPlot

\* the panel builder and the analytics scripts: a run on a file that lacks a
\* required column ends raised, with none of its outputs written
OtherScriptsAbortOnAbsentColumn ==
    /\ (PanelColumnAbsent /\ pb_pc \notin {"idle", "start"}) =>
          (pb_pc = "raised" /\ pb_err = "KeyError" /\ ~panelCsv.exists)
    /\ (AnalyticsColumnAbsent /\ cr_pc \notin {"idle", "start"}) =>
          (cr_pc = "raised" /\ cr_err = "KeyError" /\ CorrWroteNothing)
    /\ (AnalyticsColumnAbsent /\ ll_pc \notin {"idle", "start"}) =>
          (ll_pc = "raised" /\ ll_err = "KeyError" /\ LeadLagWroteNothing)

\* whenever a run is raised, it has written none of its outputs
NoOutputWhenRaised ==
    /\ sc_pc = "raised" => ~newsCsv.exists
    /\ pb_pc = "raised" => ~panelCsv.exists
    /\ cr_pc = "raised" => CorrWroteNothing
    /\ ll_pc = "raised" => LeadLagWroteNothing

\* C10 as claimed: a run on an input that lacks a required column ends with
\* a raised error and has written no output file.
C10_AsClaimed ==
    /\ (ScorerColumnAbsent /\ sc_pc \notin {"idle", "start"}) =>
          (sc_pc = "raised" /\ ~newsCsv.exists)
    /\ OtherScriptsAbortOnAbsentColumn

\* C10 (amended): a run on an input that lacks a required column writes no
\* output file and ends with a raised error, except that the scorer returns
\* early, without an error, when its input has a headline column and no
\* non-null headline (it then never looks for TIMESTAMP).
C10_AbsentColumnAborts ==
    /\ (ScorerColumnAbsent /\ sc_pc \notin {"idle", "start"}) =>
          /\ ~newsCsv.exists
          /\ \/ sc_pc = "raised" /\ sc_err = "KeyError"
             \/ /\ sc_pc = "returned"
                /\ find_headline_column(inputCsv.cols) # ""
                /\ \A i \in DOMAIN inputCsv.rows :
                      inputCsv.rows[i][find_headline_column(inputCsv.cols)] = ""
    /\ OtherScriptsAbortOnAbsentColumn
    /\ NoOutputWhenRaised

\* C10 witness: runs that met an absent column in each of the four scripts
\* are reached; this one is a lead/lag run raised on a panel without RETURN
\* after build_correlation was raised on the same panel
C10_Witness ==
    /\ "RETURN" \notin panelCsv.cols /\ "DATE" \in panelCsv.cols
    /\ Len(panelCsv.rows) >= 2
    /\ ll_pc = "raised" /\ cr_pc = "raised" /\ ll_err = "KeyError"

----------------------------------------------------------------------------
(* Claims about empty inputs *)

\* the scorer's input has a headline column and no non-null headline
NoHeadlineLeft ==
    /\ inputCsv.exists
    /\ find_headline_column(inputCsv.cols) # ""
    /\ \A i \in DOMAIN inputCsv.rows :
          inputCsv.rows[i][find_headline_column(inputCsv.cols)] = ""

\* the panel file is one the analytics scripts can read: it has the columns
\* they need and every DATE parses
ReadablePanel ==
    /\ panelCsv.exists
    /\ {"DATE", "RETURN", "DAILY_SENTIMENT"} \subseteq panelCsv.cols
    /\ \A i \in DOMAIN panelCsv.rows : ParseIso(panelCsv.rows[i]["DATE"]) # NaT

\* the lead-lag script is left without a row: no panel row inside its date
\* window, or no complete sentiment / next-return pair among them
NoLeadLagPair ==
    /\ ReadablePanel
    /\ LeadLagFrame(date_filter(ReadPanel(panelCsv), LL_START_DATE, LL_END_DATE)) = <<>>

\* build_correlation is left without a row: no panel row inside its window
NoCorrRow == ReadablePanel /\ InRange(START_DATE, END_DATE) = <<>>

\* the scorer returns early on an input without a headline and writes nothing
ScorerReturnsEarly ==
    (NoHeadlineLeft /\ sc_pc \notin {"idle", "start"}) =>
        (sc_pc = "returned" /\ sc_err = "" /\ ~newsCsv.exists)

\* build_correlation has no check of its own: it is not aborted, and what it
\* writes holds no value (every correlation missing, no rolling row)
CorrWritesEmpty ==
    (NoCorrRow /\ cr_pc \notin {"idle", "start"}) =>
        /\ cr_pc # "raised" /\ cr_err = ""
        /\ corrTable.exists => \A p \in DOMAIN corrTable.rows : corrTable.rows[p].nan
        /\ dailyCorr.exists => dailyCorr.rows = <<>>

\* C11 as claimed: when filtering leaves no rows the run ends without a
\* raised error, and its output is not written or written empty, in the
\* scorer, the lead-lag script and build_correlation alike.
C11_AsClaimed ==
    /\ ScorerReturnsEarly
    /\ CorrWritesEmpty
    /\ (NoLeadLagPair /\ ll_pc \notin {"idle", "start"}) =>
          /\ ll_pc # "raised" /\ ll_err = ""
          /\ leadLagCsv.exists => leadLagCsv.rows = <<>>

\* C11 (amended): on an input that filtering leaves empty the scorer returns
\* early without an error and without output; build_correlation goes on
\* without an error and writes tables that hold no value; the lead-lag script
\* is aborted by a ValueError and writes neither its table nor its chart.
C11_EmptyInputHandling ==
    /\ ScorerReturnsEarly
    /\ CorrWritesEmpty
    /\ (NoLeadLagPair /\ ll_pc \notin {"idle", "start"}) =>
          (ll_pc = "raised" /\ ll_err = "ValueError" /\ LeadLagWroteNothing)

\* C11 witness: on a panel with rows, none of them inside the window, the
\* lead-lag run was aborted and build_correlation ran to its end
C11_Witness ==
    /\ NoLeadLagPair /\ NoCorrRow /\ Len(panelCsv.rows) >= 1
    /\ ll_pc = "raised" /\ ll_err = "ValueError"
    /\ cr_pc = "done" /\ dailyCorr.exists /\ dailyCorr.rows = <<>>

----------------------------------------------------------------------------
(* Claims about unparseable timestamps *)

\* the rows of the input the scorer works on (a non-null headline), and those
\* of them whose TIMESTAMP parses
WithHeadline ==
    SelectSeq(inputCsv.rows, LAMBDA r : r[find_headline_column(inputCsv.cols)] # "")

Parseable == SelectSeq(WithHeadline, LAMBDA r : ParseIso(r["TIMESTAMP"]) # NaT)

\* the scorer got past its input checks: the file has a headline column, a
\* TIMESTAMP column and a row with a headline
ScorableInput ==
    /\ inputCsv.exists
    /\ find_headline_column(inputCsv.cols) # ""
    /\ "TIMESTAMP" \in inputCsv.cols
    /\ WithHeadline # <<>>

\* rows is the parseable rows of the input, in their order, each with the
\* valid DATE of its own TIMESTAMP
KeptRows(rows) ==
    /\ Len(rows) = Len(Parseable)
    /\ \A i \in DOMAIN rows :
          /\ \A c \in inputCsv.cols : rows[i][c] = Parseable[i][c]
          /\ rows[i]["DATE"] = DmyString(ParseIso(Parseable[i]["TIMESTAMP"]))
          /\ ValidYMD(rows[i]["DATE"][3], rows[i]["DATE"][2], rows[i]["DATE"][1])

\* C12: rows whose TIMESTAMP does not parse are dropped and nothing else is:
\* the frame is the parseable rows in their original order, each with a
\* valid DATE from its own TIMESTAMP, the reported count is the number of
\* rows dropped, and the run is not ended by them: it goes on to load the
\* model and score, and the file it writes holds exactly the kept rows.
C12_BadTimestampsDropped ==
    (ScorableInput /\ sc_pc \notin {"idle", "start"}) =>
        /\ sc_pc # "returned"
        /\ sc_pc = "raised" => (sc_err = "KeyError" /\ sc_idx = [err |-> ""])
        /\ sc_dropped = Len(WithHeadline) - Len(Parseable)
        /\ KeptRows(sc_df)
        /\ sc_pc = "done" => (newsCsv.exists /\ KeptRows(newsCsv.rows))

\* C12 witness: a written file after an unparseable row between two
\* parseable rows was dropped
C12_Witness ==
    /\ ScorableInput /\ sc_pc = "done"
    /\ Len(inputCsv.rows) = 3
    /\ ParseIso(inputCsv.rows[2]["TIMESTAMP"]) = NaT
    /\ sc_dropped = 1
    /\ Len(newsCsv.rows) = 2
    /\ newsCsv.rows[1]["DATE"] # newsCsv.rows[2]["DATE"]

----------------------------------------------------------------------------
(* Claims about the news fetcher *)

\* the story ids of the fetched rows whose timestamp lies inside the range
IdsInRange ==
    IF \E c \in fetched.cols : rename_map(c) = "STORY_ID"
    THEN { fetched.rows[i][CHOOSE c \in fetched.cols : rename_map(c) = "STORY_ID"] :
             i \in { k \in DOMAIN fetched.rows :
                       /\ ParseIso(fetched.rows[k]["index"]) >= FN_START_DATE
                       /\ ParseIso(fetched.rows[k]["index"]) <= FN_END_DATE } }
    ELSE {}

\* C13: in the file the fetcher wrote no two rows share a story id, and every
\* story id of a fetched row inside the date range is on exactly one row.
C13_StoryIdsUnique ==
    (fn_pc = "done" /\ "STORY_ID" \in inputCsv.cols) =>
        /\ \A i, j \in DOMAIN inputCsv.rows :
              i # j => inputCsv.rows[i]["STORY_ID"] # inputCsv.rows[j]["STORY_ID"]
        /\ \A id \in IdsInRange :
              Cardinality({i \in DOMAIN inputCsv.rows : inputCsv.rows[i]["STORY_ID"] = id}) = 1
        /\ \A i \in DOMAIN inputCsv.rows : inputCsv.rows[i]["STORY_ID"] \in IdsInRange

\* C13 witness: a written file of two rows from a result of three rows in
\* which an id occurs twice inside the range
C13_Witness ==
    /\ fn_pc = "done" /\ "storyId" \in fetched.cols
    /\ Len(fetched.rows) = 3 /\ Len(inputCsv.rows) = 2
    /\ \A i \in DOMAIN fetched.rows : ParseIso(fetched.rows[i]["index"]) >= FN_START_DATE
    /\ fetched.rows[1]["storyId"] = fetched.rows[3]["storyId"]

----------------------------------------------------------------------------
(* Claims about the scorer followed by the panel builder *)

\* the calendar dates of the timestamps of the headlines the scorer was given
TimestampDates == {ParseIso(Parseable[i]["TIMESTAMP"]) : i \in DOMAIN Parseable}

\* both scripts ran to their end, the panel builder on the scorer's output
PipelineDone == sc_pc = "done" /\ pb_pc = "done"

\* C14: the scorer followed by the panel builder yields a panel with exactly
\* one row per date that is the date of a headline timestamp and of a price
\* bar, and no other row.
C14_EndToEndPanel ==
    PipelineDone =>
        /\ PanelDates = TimestampDates \cap PriceDates
        /\ Len(panelCsv.rows) = Cardinality(TimestampDates \cap PriceDates)

\* C17: every DATE string the scorer wrote is read back by load_news as the
\* calendar date of the row's timestamp, never as another date and never as
\* a missing date.
C17_DateRoundTrips ==
    (sc_pc = "done" /\ pb_pc \in {"news", "prices", "done"}) =>
        \A i \in DOMAIN newsCsv.rows :
            NewsDated(newsCsv.rows)[i]["DATE"] = newsCsv.rows[i]["TIMESTAMP_PARSED"]

----------------------------------------------------------------------------
(* Claims about the scoring loop *)

RECURSIVE Flatten(_)
\* the texts of a sequence of batches, in call order
Flatten(calls) == IF calls = <<>> THEN <<>> ELSE Head(calls) \o Flatten(Tail(calls))

\* ceil(n / b)
CeilDiv(n, b) == (n + b - 1) \div b

\* what holds of the model calls made so far while the loop runs and after it
BatchesSoFar ==
    sc_pc \in {"score", "save", "done"} =>
        /\ Flatten(sc_calls) = SubSeq(Headlines, 1, Min(sc_i, Len(Headlines)))
        /\ Len(sc_calls) <= CeilDiv(Len(Headlines), batch_size)
        /\ \A k \in DOMAIN sc_calls :
              /\ Len(sc_calls[k]) >= 1 /\ Len(sc_calls[k]) <= batch_size
              /\ k < Len(sc_calls) => Len(sc_calls[k]) = batch_size
        /\ Len(Headlines) = 0 => sc_calls = <<>>
        /\ sc_pc \in {"save", "done"} =>
              /\ Len(sc_calls) = CeilDiv(Len(Headlines), batch_size)
              /\ Flatten(sc_calls) = Headlines

\* C16: the scoring loop ends, after exactly ceil(n / B) model calls; the
\* batches are non-empty runs of at most B consecutive texts in input order,
\* all but the last of exactly B, every text is in exactly one batch, and for
\* n = 0 the model is never called.
C16_LoopTerminatesInOrder ==
    /\ []BatchesSoFar
    /\ (sc_pc = "score") ~> (sc_pc = "save")

\* C16 witness: the loop has ended after two calls on three texts with B = 2
C16_Witness ==
    /\ sc_pc = "save" /\ batch_size = 2
    /\ Len(Headlines) = 3
    /\ Len(sc_calls) = 2 /\ Len(sc_calls[2]) = 1

----------------------------------------------------------------------------
(* Claims about the order of writes *)

CorrWroteSomething == corrTable.exists \/ corrPlot \/ dailyCorr.exists \/ dailyCorrPlot

LeadLagWroteSomething == leadLagCsv.exists \/ leadLagPlot

\* a step leaves every file that exists as it is, and does not end in an
\* error a run that has written a file
WriteOnceThenNoAbort ==
    /\ (fn_pc = "done" => inputCsv' = inputCsv)
    /\ (newsCsv.exists => (newsCsv' = newsCsv /\ sc_pc' # "raised"))
    /\ (panelCsv.exists => (panelCsv' = panelCsv /\ pb_pc' # "raised"))
    /\ (corrTable.exists => corrTable' = corrTable)
    /\ (corrPlot => corrPlot')
    /\ (dailyCorr.exists => dailyCorr' = dailyCorr)
    /\ (dailyCorrPlot => dailyCorrPlot')
    /\ (CorrWroteSomething => cr_pc' # "raised")
    /\ (leadLagCsv.exists => leadLagCsv' = leadLagCsv)
    /\ (leadLagPlot => leadLagPlot')
    /\ (LeadLagWroteSomething => ll_pc' # "raised")

\* C15: every output file is written at most once, a run that has written
\* its first output file is not aborted afterwards, and so no run ends in an
\* error with some of its output files written.
C15_WritesAreTerminal ==
    /\ []NoOutputWhenRaised
    /\ [][WriteOnceThenNoAbort]_vars

\* C15 witness: the panel builder, build_correlation and the lead-lag script
\* have all run to their end and written every output file
C15_Witness ==
    /\ pb_pc = "done" /\ cr_pc = "done" /\ ll_pc = "done"
    /\ pricesCsv.exists /\ panelCsv.exists
    /\ corrTable.exists /\ corrPlot /\ dailyCorr.exists /\ dailyCorrPlot
    /\ leadLagCsv.exists /\ leadLagPlot

====
